---- MODULE Spec2Model ----
(***************************************************************************)
(* Model of photon_tools' bin_photons (src/bin_photons.pyx): one call of   *)
(* the function, from argument binding to the returned record array.       *)
(*                                                                         *)
(* Integer division is the C division Cython emits for the typed operands  *)
(* (uint64_t / int, language level 2), i.e. floor division on naturals.    *)
(* The all-ones sentinel (uint64_t)-1 of start_t / end_t is written Unset. *)
(***************************************************************************)
EXTENDS Integers, Sequences, FiniteSets

\* ---------------------------------------------------------------- bounds
MaxTime  == 4      \* event times and start_t range over 0..MaxTime,
                   \* end_t over 0..MaxTime + MaxWidth
MaxLen   == 5      \* longest times array
MaxWidth == 3      \* bin_width ranges over 1..MaxWidth
MaxChunk == 2      \* chunk_sz ranges over 1..MaxChunk (10000 in the source)
CountBits == 2     \* width of the count field (16 in the source: short / u2)

Unset == -1        \* the default start_t=-1 / end_t=-1

VARIABLES times, bin_width, start_t, end_t, include_zeros, chunk_sz,
          pc, i, bin_start, bin_count, chunks, chunk, bin, result,
          single, widx

vars == <<times, bin_width, start_t, end_t, include_zeros, chunk_sz,
          pc, i, bin_start, bin_count, chunks, chunk, bin, result,
          single, widx>>

\* history of the writes "chunk[bin] = ...": single is every entry written, in
\* write order, as one unbounded buffer would hold them; widx is the value of
\* bin at each of those writes
ghost == <<single, widx>>

args == <<times, bin_width, start_t, end_t, include_zeros, chunk_sz>>

\* ---------------------------------------------------------------- helpers
\* np.ndarray[np.uint64_t] times, sorted ascending by the caller
SortedTimes == { s \in UNION { [1..n -> 0..MaxTime] : n \in 0..MaxLen } :
                   \A k \in 1..(Len(s) - 1) : s[k] <= s[k + 1] }

\* a slot of np.empty that has not been written
Garbage == [start_t |-> -1, count |-> -1]

\* np.empty(chunk_sz, dtype=bin_dtype)
EmptyChunk(sz) == [k \in 1..sz |-> Garbage]

\* cdef short: the value kept after an int result is narrowed to 16 bits
ToShort(x) == LET m == x % (2 ^ CountBits)
              IN  IF m >= 2 ^ (CountBits - 1) THEN m - 2 ^ CountBits ELSE m

\* the u2 field "count": a short stored into an unsigned 16-bit field
ToU2(x) == x % (2 ^ CountBits)

\* (t / bin_width) * bin_width
AlignNone(t, w) == t
AlignDown(t, w) == (t \div w) * w

\* range(from, to, step), step > 0
RECURSIVE Range(_, _, _)
Range(from, to, step) ==
    IF from >= to THEN <<>> ELSE <<from>> \o Range(from + step, to, step)

\* the zero bins written by "for j in range(from, to, step)"
ZeroBinsFromPrev(from, to, step) ==
    LET r == Range(from - step, to, step)
    IN  [k \in 1..Len(r) |-> [start_t |-> r[k], count |-> 0]]
ZeroBins(from, to, step) ==
    LET r == Range(from, to, step)
    IN  [k \in 1..Len(r) |-> [start_t |-> r[k], count |-> 0]]

\* chunk[bin] = e; bin += 1; if bin == chunk_sz: flush and start a new chunk
PutDropFull(b, e, sz) ==
    LET written == [b.chunk EXCEPT ![b.bin + 1] = e]
    IN  IF b.bin + 1 = sz
        THEN [chunks |-> b.chunks, chunk |-> EmptyChunk(sz), bin |-> 0]
        ELSE [chunks |-> b.chunks, chunk |-> written, bin |-> b.bin + 1]
Put(b, e, sz) ==
    LET written == [b.chunk EXCEPT ![b.bin + 1] = e]
    IN  IF b.bin + 1 = sz
        THEN [chunks |-> Append(b.chunks, written),
              chunk  |-> EmptyChunk(sz),
              bin    |-> 0]
        ELSE [chunks |-> b.chunks, chunk |-> written, bin |-> b.bin + 1]

RECURSIVE PutAll(_, _, _)
PutAll(b, es, sz) ==
    IF es = <<>> THEN b ELSE PutAll(Put(b, Head(es), sz), Tail(es), sz)

\* the values of bin at the successive writes of es, starting from buffer b
RECURSIVE WriteIdx(_, _, _)
WriteIdx(b, es, sz) ==
    IF es = <<>> THEN <<>>
    ELSE <<b.bin>> \o WriteIdx(Put(b, Head(es), sz), Tail(es), sz)

\* np.hstack
RECURSIVE HStack(_)
HStack(cs) == IF cs = <<>> THEN <<>> ELSE Head(cs) \o HStack(Tail(cs))

Buf == [chunks |-> chunks, chunk |-> chunk, bin |-> bin]

\* ---------------------------------------------------------------- Init
Init ==
    /\ times \in SortedTimes
    /\ bin_width \in 1..MaxWidth
    /\ start_t \in {Unset} \cup 0..MaxTime
    /\ end_t \in {Unset} \cup 0..(MaxTime + MaxWidth)
    /\ include_zeros \in BOOLEAN
    /\ chunk_sz \in 1..MaxChunk
    /\ pc = "entry"
    /\ i = 0
    /\ bin_start = 0
    /\ bin_count = 0
    /\ chunks = <<>>
    /\ chunk = EmptyChunk(chunk_sz)
    /\ bin = 0
    /\ result = <<>>
    /\ single = <<>>
    /\ widx = <<>>

\* ---------------------------------------------------------------- actions
\* lines 23-26 when times[0] is read from an empty array: IndexError
StartRaise ==
    /\ pc = "entry"
    /\ start_t = Unset
    /\ Len(times) = 0
    /\ pc' = "raised"
    /\ UNCHANGED <<args, i, bin_start, bin_count, chunks, chunk, bin, result,
                   ghost>>

\* lines 23-26
Start ==
    /\ pc = "entry"
    /\ ~(start_t = Unset /\ Len(times) = 0)
    /\ bin_start' = AlignDown(IF start_t = Unset THEN times[1] ELSE start_t,
                              bin_width)
    /\ bin_count' = 0
    /\ bin' = 0
    /\ i' = 0
    /\ pc' = "loop"
    /\ UNCHANGED <<args, chunks, chunk, result, ghost>>

\* one iteration of "for i in range(times.shape[0])", lines 28-53
Iterate ==
    /\ pc = "loop"
    /\ i < Len(times)
    /\ LET t == times[i + 1]
       IN  IF t >= bin_start + bin_width
           THEN LET new_start == AlignDown(t, bin_width)
                    b1 == Put(Buf, [start_t |-> bin_start,
                                    count   |-> ToU2(bin_count)], chunk_sz)
                    b2 == IF include_zeros
                          THEN PutAll(b1, ZeroBins(bin_start + bin_width,
                                                   new_start, bin_width),
                                      chunk_sz)
                          ELSE b1
                    es == <<[start_t |-> bin_start, count |-> ToU2(bin_count)]>>
                          \o (IF include_zeros
                              THEN ZeroBins(bin_start + bin_width, new_start,
                                            bin_width)
                              ELSE <<>>)
                IN  /\ single' = single \o es
                    /\ widx' = widx \o WriteIdx(Buf, es, chunk_sz)
                    /\ chunks' = b2.chunks
                    /\ chunk' = b2.chunk
                    /\ bin' = b2.bin
                    /\ bin_start' = new_start
                    /\ bin_count' = ToShort(0 + 1)
           ELSE /\ bin_count' = ToShort(bin_count + 1)
                /\ UNCHANGED <<chunks, chunk, bin, bin_start, ghost>>
    /\ i' = i + 1
    /\ UNCHANGED <<args, pc, result>>

\* lines 55-63
EndFill ==
    /\ pc = "loop"
    /\ i = Len(times)
    /\ LET b == IF include_zeros /\ end_t # Unset
                THEN PutAll(Buf, ZeroBins(bin_start + bin_width, end_t,
                                          bin_width), chunk_sz)
                ELSE Buf
           es == IF include_zeros /\ end_t # Unset
                 THEN ZeroBins(bin_start + bin_width, end_t, bin_width)
                 ELSE <<>>
       IN  /\ single' = single \o es
           /\ widx' = widx \o WriteIdx(Buf, es, chunk_sz)
           /\ chunks' = b.chunks
           /\ chunk' = b.chunk
           /\ bin' = b.bin
    /\ pc' = "return"
    /\ UNCHANGED <<args, i, bin_start, bin_count, result>>

\* lines 65-66
Return ==
    /\ pc = "return"
    /\ result' = HStack(Append(chunks, SubSeq(chunk, 1, bin)))
    /\ pc' = "done"
    /\ UNCHANGED <<args, i, bin_start, bin_count, chunks, chunk, bin, ghost>>

Next == StartRaise \/ Start \/ Iterate \/ EndFill \/ Return

Spec == Init /\ [][Next]_vars

\* ---------------------------------------------------------------- vocabulary
\* the bins written so far, in write order
Emitted == HStack(chunks) \o SubSeq(chunk, 1, bin)

\* floor(t / bin_width) * bin_width, stated without the code's helper
Floor(t) == t - (t % bin_width)

\* the first bin boundary of the requested range (defined when an anchor exists)
EffectiveStart == Floor(IF start_t = Unset THEN times[1] ELSE start_t)

\* event e lies in [effective_start_t, effective_end_t)
InRange(e) == EffectiveStart <= e /\ (end_t = Unset \/ e < end_t)

\* number of input events e with lo <= e < hi
EventsIn(lo, hi) == Cardinality({k \in DOMAIN times : lo <= times[k] /\ times[k] < hi})

RECURSIVE SumCounts(_)
SumCounts(bs) == IF bs = <<>> THEN 0 ELSE Head(bs).count + SumCounts(Tail(bs))

Starts(bs) == [k \in DOMAIN bs |-> bs[k].start_t]

CountMax == 2 ^ CountBits - 1

\* the count field can hold the whole input, hence the events of any one bin
CountsFit == Len(times) <= CountMax

StrictlyIncreasing(bs) == \A k \in 1..(Len(bs) - 1) : bs[k].start_t < bs[k + 1].start_t

Aligned(bs) == \A k \in DOMAIN bs : bs[k].start_t % bin_width = 0

\* ---------------------------------------------------------------- claims
\* C1: count conservation. The counts of the returned bins sum to the number
\* of input events inside [effective_start_t, effective_end_t), and to
\* len(times) when neither start_t nor end_t is given (counts fit the field).
C1_CountConservation ==
    (pc = "done" /\ CountsFit) =>
        /\ SumCounts(result) = Cardinality({k \in DOMAIN times : InRange(times[k])})
        /\ (start_t = Unset /\ end_t = Unset) => SumCounts(result) = Len(times)

\* C2: per-bin count. Every returned bin (s, c) has c equal to the number of
\* input events e with s <= e < s + bin_width.
C2_PerBinCount ==
    pc = "done" =>
        \A k \in DOMAIN result :
            result[k].count = EventsIn(result[k].start_t,
                                       result[k].start_t + bin_width)

\* C3: monotonic emission. The start_t values of the bins written so far, and
\* of the returned array, are strictly increasing (hence pairwise distinct).
C3_MonotonicEmission ==
    /\ pc \in {"loop", "return", "done"} => StrictlyIncreasing(Emitted)
    /\ pc = "done" => StrictlyIncreasing(result)

\* C3 witness: a returned array holding a data bin, gap zero bins and end_t
\* extension zero bins, spread over more than one chunk.
C3_Witness ==
    /\ pc = "done"
    /\ include_zeros /\ end_t # Unset
    /\ Len(chunks) >= 2
    /\ Len(result) >= 4
    /\ \E k \in DOMAIN result : result[k].count > 0
    /\ \E k \in DOMAIN result :
          result[k].count = 0 /\ result[k].start_t < bin_start
    /\ \E k \in DOMAIN result :
          result[k].count = 0 /\ result[k].start_t > bin_start

\* C4: boundary alignment. When start_t is omitted or a multiple of bin_width,
\* every bin written (data, gap zero, end_t extension zero) starts on an exact
\* multiple of bin_width.
C4_BoundaryAlignment ==
    (start_t = Unset \/ start_t % bin_width = 0) =>
        /\ pc \in {"loop", "return", "done"} => Aligned(Emitted)
        /\ pc = "done" => Aligned(result)

\* C4 witness: start_t omitted, the first event off the grid, and the returned
\* array holds a data bin, a gap zero bin and an end_t extension zero bin.
C4_Witness ==
    /\ pc = "done"
    /\ start_t = Unset /\ bin_width > 1
    /\ times[1] % bin_width # 0
    /\ \E k \in DOMAIN result : result[k].count > 0
    /\ \E k \in DOMAIN result :
          result[k].count = 0 /\ result[k].start_t < bin_start
    /\ \E k \in DOMAIN result :
          result[k].count = 0 /\ result[k].start_t > bin_start

\* C5: zero-fill completeness. With include_zeros the returned start_t values
\* are exactly effective_start_t, effective_start_t + bin_width, ... without a
\* gap, through the bin of the last event when end_t is omitted and through
\* the last multiple below end_t when end_t is given.
C5_ZeroFillCompleteness ==
    (pc = "done" /\ include_zeros /\ (Len(times) > 0 \/ end_t # Unset)) =>
        Starts(result) =
            Range(EffectiveStart,
                  IF end_t = Unset THEN Floor(times[Len(times)]) + bin_width
                                   ELSE end_t,
                  bin_width)

\* C6: zero-fill suppression. Without include_zeros no returned bin has
\* count 0, and the result is empty when no event lies in the requested range.
C6_ZeroFillSuppression ==
    (pc = "done" /\ ~include_zeros) =>
        /\ \A k \in DOMAIN result : result[k].count # 0
        /\ (\A k \in DOMAIN times : ~InRange(times[k])) => result = <<>>

\* C7: range truncation. When start_t and/or end_t are given, every returned
\* bin starts inside [effective_start_t, end_t).
C7_RangeTruncation ==
    (pc = "done" /\ (start_t # Unset \/ end_t # Unset)) =>
        \A k \in DOMAIN result :
            /\ EffectiveStart <= result[k].start_t
            /\ end_t # Unset => result[k].start_t < end_t

\* C8: empty input without anchor. A call with empty times and no start_t
\* does not raise, and what it returns is the empty bin sequence.
C8_EmptyNoAnchor ==
    (Len(times) = 0 /\ start_t = Unset) =>
        /\ pc # "raised"
        /\ pc = "done" => result = <<>>

\* C9: counter overflow. A returned bin into which more events fall than the
\* count field can hold carries the field's maximum (saturation, no wrap).
C9_CounterSaturates ==
    pc = "done" =>
        \A k \in DOMAIN result :
            EventsIn(result[k].start_t, result[k].start_t + bin_width) > CountMax
                => result[k].count = CountMax

\* C10: final bin emission. For non-empty times the bin in progress at the end
\* of the pass is returned: it is the last entry when end_t is omitted, and
\* is followed only by zero-count extension bins when end_t is given.
C10_FinalBinEmitted ==
    (pc = "done" /\ Len(times) > 0 /\ CountsFit) =>
        LET last == Floor(times[Len(times)])
            n    == EventsIn(last, last + bin_width)
        IN  \E k \in DOMAIN result :
                /\ result[k] = [start_t |-> last, count |-> n]
                /\ end_t = Unset => k = Len(result)
                /\ \A m \in (k + 1)..Len(result) : result[m].count = 0

\* C11: chunked buffering equivalence. For every chunk capacity and every
\* number of written entries, the flushed chunks followed by chunk[:bin] equal
\* the entries written to one unbounded buffer, in order and content (nothing
\* lost, duplicated or reordered at a chunk boundary); every flushed chunk is
\* full; and bin is below the capacity at every write.
C11_ChunkedEquivalence ==
    /\ HStack(chunks) \o SubSeq(chunk, 1, bin) = single
    /\ pc = "done" => result = single
    /\ \A k \in DOMAIN chunks : Len(chunks[k]) = chunk_sz
    /\ Len(chunks) * chunk_sz + bin = Len(single)
    /\ bin < chunk_sz
    /\ Len(widx) = Len(single)
    /\ \A k \in DOMAIN widx : 0 <= widx[k] /\ widx[k] < chunk_sz

\* C11 witness: a capacity above 1, more entries written than the capacity,
\* not a multiple of it: two flushed chunks and a partial final chunk.
C11_Witness ==
    /\ pc = "done"
    /\ chunk_sz > 1
    /\ Len(chunks) >= 2
    /\ bin > 0
    /\ Len(result) = Len(chunks) * chunk_sz + bin
    /\ \E k \in DOMAIN result : result[k].count > 0

====
